---- MODULE Spec2Model ----
(***************************************************************************)
(* ngago: a generic repository (base_repository.go) over the beego ORM and *)
(* a generic REST controller (base_rest_controller.go) on top of it.       *)
(*                                                                         *)
(* Go strings are modelled as sequences of one-character strings, so that  *)
(* Split, TrimSpace, Replace, HasSuffix, TrimSuffix, Atoi and FormatFloat   *)
(* are computed character by character as the library computes them.       *)
(* A run-time panic of a Go function is the field `panic` of its result.   *)
(***************************************************************************)
EXTENDS Integers, Sequences, FiniteSets, TLC

VARIABLES
    filterMap,   \* BaseRepository.filterMap: field name -> FilterFunc
    rcall,       \* the last call made on the repository API and what it handed the driver
    store,       \* the table behind the repository: primary key -> row
    nextId,      \* the primary key the store gives the next inserted row
    req,         \* the HTTP request being served
    ctx,         \* its controller: responses written, repository calls made, header
    inflight     \* the collection GETs between their ReadAll and their Count

rvars == <<filterMap, rcall>>
cvars == <<store, nextId, req, ctx, inflight>>
vars == <<filterMap, rcall, store, nextId, req, ctx, inflight>>

-----------------------------------------------------------------------------
(* Bounds of the model *)

MaxSortFields == 2      \* comma-separated elements in a sort specification
MaxFilters == 2         \* entries in QueryOptions.Filters
MaxRegistered == 1      \* entries AddFilter puts in the registry
MaxId == 2              \* rows the store ever holds
MaxInFlight == 2        \* collection GETs between their two store calls at one time

-----------------------------------------------------------------------------
(* package strings / strconv *)

Digit == <<"0", "1", "2", "3", "4", "5", "6", "7", "8", "9">>

IsDigit(c) == \E d \in 1..10 : Digit[d] = c

DigitVal(c) == (CHOOSE d \in 1..10 : Digit[d] = c) - 1

IsSpace(c) == c = " "

RECURSIVE TrimLeft(_)
TrimLeft(s) ==
    IF s # <<>> /\ IsSpace(Head(s)) THEN TrimLeft(Tail(s)) ELSE s

RECURSIVE TrimRight(_)
TrimRight(s) ==
    IF s # <<>> /\ IsSpace(s[Len(s)]) THEN TrimRight(SubSeq(s, 1, Len(s) - 1)) ELSE s

TrimSpace(s) == TrimRight(TrimLeft(s))

HasPrefix(s, p) == Len(s) >= Len(p) /\ SubSeq(s, 1, Len(p)) = p

HasSuffix(s, p) == Len(s) >= Len(p) /\ SubSeq(s, Len(s) - Len(p) + 1, Len(s)) = p

TrimPrefix(s, p) == IF HasPrefix(s, p) THEN SubSeq(s, Len(p) + 1, Len(s)) ELSE s

TrimSuffix(s, p) == IF HasSuffix(s, p) THEN SubSeq(s, 1, Len(s) - Len(p)) ELSE s

\* strings.Replace(s, old, new, -1) for a one-character old
RECURSIVE Replace(_, _, _)
Replace(s, old, new) ==
    IF s = <<>> THEN <<>>
    ELSE (IF Head(s) = old THEN new ELSE <<Head(s)>>) \o Replace(Tail(s), old, new)

\* strings.Split(s, sep) for a one-character sep: n separators give n+1 pieces,
\* and the empty string gives one empty piece
RECURSIVE Split(_, _)
Split(s, sep) ==
    IF \A i \in 1..Len(s) : s[i] # sep THEN <<s>>
    ELSE LET k == CHOOSE i \in 1..Len(s) : s[i] = sep /\ \A j \in 1..(i - 1) : s[j] # sep
         IN  <<SubSeq(s, 1, k - 1)>> \o Split(SubSeq(s, k + 1, Len(s)), sep)

LowerChar(c) ==
    CASE c = "A" -> "a" [] c = "B" -> "b" [] c = "C" -> "c" [] c = "D" -> "d"
      [] c = "E" -> "e" [] c = "R" -> "r" [] c = "S" -> "s" [] OTHER -> c

ToLower(s) == [i \in 1..Len(s) |-> LowerChar(s[i])]

RECURSIVE ParseDigits(_, _)
ParseDigits(s, acc) ==
    IF s = <<>> THEN acc ELSE ParseDigits(Tail(s), acc * 10 + DigitVal(Head(s)))

\* strconv.Atoi: an optional sign and at least one digit; the value is 0 on a
\* syntax error
Atoi(s) ==
    LET signed == s # <<>> /\ Head(s) \in {"-", "+"}
        body == IF signed THEN Tail(s) ELSE s
        ok == body # <<>> /\ \A i \in 1..Len(body) : IsDigit(body[i])
        n == IF ok THEN ParseDigits(body, 0) ELSE 0
    IN  [n |-> IF signed /\ Head(s) = "-" THEN 0 - n ELSE n, err |-> ~ok]

RECURSIVE FormatUint(_)
FormatUint(n) ==
    IF n < 10 THEN <<Digit[n + 1]>> ELSE FormatUint(n \div 10) \o <<Digit[(n % 10) + 1]>>

\* strconv.FormatFloat(f, 'f', -1, 64) of the float64 whose value is t/10:
\* the shortest decimal, no exponent, and a fraction only when there is one
FormatFloat(t) ==
    LET a == IF t < 0 THEN 0 - t ELSE t
    IN  (IF t < 0 THEN <<"-">> ELSE <<>>) \o FormatUint(a \div 10)
            \o (IF a % 10 = 0 THEN <<>> ELSE <<".", Digit[(a % 10) + 1]>>)

-----------------------------------------------------------------------------
(* orm.QuerySeter: what the query builder has been told so far.  OrderBy,    *)
(* Limit and Offset are each called at most once by the repository: <<>> is *)
(* "not called", <<x>> is "called with x".  Filter calls are conjoined by   *)
(* the driver; the repository issues them in Go's map order, so they are a  *)
(* set.                                                                     *)

QueryTable(table) ==
    [table |-> table, orderBy |-> <<>>, limit |-> <<>>, offset |-> <<>>,
     filters |-> {}, panic |-> FALSE]

\* qs.Filter(field, value): value is an int, a string or a bool
Cond(field, kind, i, s, b) == [field |-> field, kind |-> kind, i |-> i, s |-> s, b |-> b]

Filter(qs, cond) == [qs EXCEPT !.filters = @ \cup {cond}]

OrderBy(qs, fields) == [qs EXCEPT !.orderBy = <<fields>>]

Limit(qs, n) == [qs EXCEPT !.limit = <<n>>]

Offset(qs, n) == [qs EXCEPT !.offset = <<n>>]

\* a run-time panic unwinds the call: no query reaches the driver
Panicked(qs) == [QueryTable(qs.table) EXCEPT !.panic = TRUE]

-----------------------------------------------------------------------------
(* base_repository.go *)

Table == <<"w">>

S_Id == <<"I", "d">>
S__id == <<"_", "_", "i", "d">>
S_desc == <<"d", "e", "s", "c">>
S_true == <<"t", "r", "u", "e">>

IdFilter(qs, field, value) ==
    Filter(qs, Cond(TrimSuffix(field, S_Id) \o S__id, "int", Atoi(value).n, <<>>, FALSE))

BooleanFilter(qs, field, value) ==
    Filter(qs, Cond(field, "bool", 0, <<>>, value = S_true))

StartsWithFilter(qs, field, value) ==
    Filter(qs, Cond(field \o <<"_", "_", "i", "s", "t", "a", "r", "t", "s", "w", "i", "t", "h">>,
                    "string", 0, value, FALSE))

ContainsWithFilter(qs, field, value) ==
    Filter(qs, Cond(field \o <<"_", "_", "i", "c", "o", "n", "t", "a", "i", "n", "s">>,
                    "string", 0, value, FALSE))

\* ff(qs, fn, s) for a FilterFunc value ff; calling the nil func value panics
CallFilterFunc(ff, qs, field, value) ==
    CASE ff = "BooleanFilter" -> BooleanFilter(qs, field, value)
      [] ff = "ContainsWithFilter" -> ContainsWithFilter(qs, field, value)
      [] ff = "StartsWithFilter" -> StartsWithFilter(qs, field, value)
      [] ff = "IdFilter" -> IdFilter(qs, field, value)
      [] OTHER -> Panicked(qs)

\* SortElem with the global flag prefixing "-" whatever the field's own sign is
SortElem_AlwaysPrefix(s0, reverse) ==
    LET s == TrimSpace(s0)
        r == IF reverse THEN <<"-">> \o s ELSE s
    IN  [panic |-> reverse /\ s = <<>>, s |-> Replace(r, ".", <<"_", "_">>)]

\* one element of the sort list, lines 139-147; s[0] of an empty string panics
SortElem(s0, reverse) ==
    LET s == TrimSpace(s0)
        r == IF reverse
                THEN (IF s # <<>> /\ s[1] = "-" THEN TrimPrefix(s, <<"-">>) ELSE <<"-">> \o s)
                ELSE s
    IN  [panic |-> reverse /\ s = <<>>, s |-> Replace(r, ".", <<"_", "_">>)]

\* AddOptions with limit and offset applied whenever they are not zero
AddOptions_NonZero(qs, options) ==
    IF Len(options) = 0 THEN qs
    ELSE LET opt == options[1]
             sort == Split(opt.Sort, ",")
             reverse == ToLower(opt.Order) = S_desc
             elems == [i \in 1..Len(sort) |-> SortElem(sort[i], reverse)]
             q1 == IF opt.Sort # <<>> THEN OrderBy(qs, [i \in 1..Len(sort) |-> elems[i].s]) ELSE qs
             q2 == IF opt.Max # 0 THEN Limit(q1, opt.Max) ELSE q1
             q3 == IF opt.Offset # 0 THEN Offset(q2, opt.Offset) ELSE q2
         IN  IF \E i \in 1..Len(sort) : elems[i].panic THEN Panicked(qs) ELSE q3

\* AddOptions, lines 131-159
AddOptions(qs, options) ==
    IF Len(options) = 0 THEN qs
    ELSE LET opt == options[1]
             sort == Split(opt.Sort, ",")
             reverse == ToLower(opt.Order) = S_desc
             elems == [i \in 1..Len(sort) |-> SortElem(sort[i], reverse)]
             q1 == IF opt.Sort # <<>> THEN OrderBy(qs, [i \in 1..Len(sort) |-> elems[i].s]) ELSE qs
             q2 == IF opt.Max > 0 THEN Limit(q1, opt.Max) ELSE q1
             q3 == IF opt.Offset > 0 THEN Offset(q2, opt.Offset) ELSE q2
         IN  IF \E i \in 1..Len(sort) : elems[i].panic THEN Panicked(qs) ELSE q3

\* FilterEntry with the id-suffix test made before the registry lookup
FilterEntry_SuffixFirst(qs, registry, f, v) ==
    LET fn == Replace(f, ".", <<"_", "_">>)
        s == IF v.kind = "float64" THEN FormatFloat(v.f) ELSE v.s
    IN  IF v.kind \notin {"float64", "string"} THEN Panicked(qs)
        ELSE IF HasSuffix(fn, S_Id) \/ HasSuffix(fn, S__id) THEN IdFilter(qs, fn, s)
        ELSE IF f \in DOMAIN registry THEN CallFilterFunc(registry[f], qs, fn, s)
        ELSE StartsWithFilter(qs, fn, s)

\* the body of the loop of AddFilters for the entry (f, v), lines 164-178;
\* v.(string) panics for a value that is neither a float64 nor a string
FilterEntry(qs, registry, f, v) ==
    LET fn == Replace(f, ".", <<"_", "_">>)
        s == IF v.kind = "float64" THEN FormatFloat(v.f) ELSE v.s
    IN  IF v.kind \notin {"float64", "string"} THEN Panicked(qs)
        ELSE IF f \in DOMAIN registry THEN CallFilterFunc(registry[f], qs, fn, s)
        ELSE IF HasSuffix(fn, S_Id) \/ HasSuffix(fn, S__id) THEN IdFilter(qs, fn, s)
        ELSE StartsWithFilter(qs, fn, s)

RECURSIVE AddFiltersLoop(_, _, _, _)
AddFiltersLoop(qs, registry, filters, keys) ==
    IF keys = {} \/ qs.panic THEN qs
    ELSE LET f == CHOOSE k \in keys : TRUE
         IN  AddFiltersLoop(FilterEntry(qs, registry, f, filters[f]), registry, filters, keys \ {f})

AddFilters(qs, registry, options) ==
    IF Len(options) # 0 /\ ~qs.panic
        THEN AddFiltersLoop(qs, registry, options[1].Filters, DOMAIN options[1].Filters)
        ELSE qs

\* the query Count hands to qs.Count()
CountQuery(registry, options) == AddFilters(QueryTable(Table), registry, options)

\* the query ReadAll hands to All()
ReadAllQuery(registry, options) ==
    AddFilters(AddOptions(QueryTable(Table), options), registry, options)

-----------------------------------------------------------------------------
(* Inputs of the repository API *)

RECURSIVE Join(_, _)
Join(ss, sep) ==
    IF Len(ss) = 0 THEN <<>>
    ELSE IF Len(ss) = 1 THEN ss[1] ELSE ss[1] \o sep \o Join(Tail(ss), sep)

\* elements of a sort specification: "a", "-a", " -b.c " and the empty element
SortElems == { <<"a">>, <<"-", "a">>, <<" ", "-", "b", ".", "c", " ">>, <<>> }

SortSpecs ==
    { Join(l, <<",">>) : l \in UNION { [1..n -> SortElems] : n \in 1..MaxSortFields } }

Orders == { <<>>, <<"a", "s", "c">>, S_desc, <<"D", "E", "S", "C">> }

Maxes == {0 - 1, 0, 2}

Offsets == {0, 3}

F_n == <<"n">>
F_uId == <<"u", "I", "d">>
F_u_id == <<"u", ".", "i", "d">>

FilterFields == { F_n, F_uId, F_u_id }

StringValue(s) == [kind |-> "string", s |-> s, f |-> 0]
Float64Value(t) == [kind |-> "float64", s |-> <<>>, f |-> t]
BoolValue == [kind |-> "bool", s |-> <<>>, f |-> 0]

\* "R", "42", 7.0, 2.5 and the JSON value true
FilterValues ==
    { StringValue(<<"R">>), StringValue(<<"4", "2">>), Float64Value(70), Float64Value(25),
      BoolValue }

FilterMaps ==
    UNION { [D -> FilterValues] : D \in { E \in SUBSET FilterFields : Cardinality(E) <= MaxFilters } }

NoFilters == [x \in {} |-> BoolValue]

Options(sort, order, offset, max, filters) ==
    [Sort |-> sort, Order |-> order, Offset |-> offset, Max |-> max, Filters |-> filters]

OneFilter == [x \in {F_n} |-> StringValue(<<"R">>)]

\* Every sort and order, every pagination and every filter mapping, each with
\* a few values of the others.
QueryOptionsSet ==
    { Options(s, o, p[1], p[2], f) :
        s \in SortSpecs, o \in Orders, p \in { <<0, 0>>, <<3, 2>> }, f \in { NoFilters, OneFilter } }
    \cup
    { Options(so[1], so[2], off, m, OneFilter) :
        so \in { <<<<>>, <<>>>>, <<<<"a">>, S_desc>> }, off \in Offsets, m \in Maxes }
    \cup
    { Options(so[1], so[2], 0, 0, f) :
        so \in { <<<<>>, <<>>>>, <<<<"a">>, S_desc>>, <<<<>>, S_desc>> },
        f \in FilterMaps }

\* options ...QueryOptions
OptionsArgs == { <<>> } \cup { <<o>> : o \in QueryOptionsSet }

FilterFuncs == { "nil", "BooleanFilter" }

\* the fields AddFilter is called for
RegisteredFields == { F_n, F_uId, F_u_id }

-----------------------------------------------------------------------------
(* The store behind the ORM: one table of rows (Id, Name), Name in column n *)

Names == { <<"R", "e", "d">>, <<"b">> }

Entity(id, name) == [Id |-> id, Name |-> name]

\* reflect.New(r.instanceType): the zero entity
NewInstance == Entity(0, <<>>)

EmptyStore == [x \in {} |-> <<>>]

S_istartswith == <<"_", "_", "i", "s", "t", "a", "r", "t", "s", "w", "i", "t", "h">>
S_icontains == <<"_", "_", "i", "c", "o", "n", "t", "a", "i", "n", "s">>

IStartsWith(s, p) == Len(p) <= Len(s) /\ ToLower(SubSeq(s, 1, Len(p))) = ToLower(p)

IContains(s, p) ==
    \E k \in 0..(Len(s) - Len(p)) : ToLower(SubSeq(s, k + 1, k + Len(p))) = ToLower(p)

\* the conditions and order fields the table has columns for
KnownCond(c) == c.kind = "string" /\ c.field \in { F_n \o S_istartswith, F_n \o S_icontains }

KnownOrder(o) == o \in { <<"n">>, <<"-", "n">>, <<"I", "d">>, <<"-", "I", "d">> }

CondHolds(c, name) ==
    IF c.field = F_n \o S_istartswith THEN IStartsWith(name, c.s) ELSE IContains(name, c.s)

\* the driver rejects a query on a column the table does not have
QueryFails(qs) ==
    \/ \E c \in qs.filters : ~KnownCond(c)
    \/ qs.orderBy # <<>> /\ \E i \in 1..Len(qs.orderBy[1]) : ~KnownOrder(qs.orderBy[1][i])

Matching(qs, rows) == { id \in DOMAIN rows : \A c \in qs.filters : CondHolds(c, rows[id]) }

CharCode(c) ==
    CASE c = "R" -> 82 [] c = "b" -> 98 [] c = "d" -> 100 [] c = "e" -> 101 [] OTHER -> 0

RECURSIVE Less(_, _)
Less(a, b) ==
    IF b = <<>> THEN FALSE
    ELSE IF a = <<>> THEN TRUE
    ELSE IF CharCode(Head(a)) # CharCode(Head(b)) THEN CharCode(Head(a)) < CharCode(Head(b))
    ELSE Less(Tail(a), Tail(b))

\* row x comes before row y under the first order field; primary key order otherwise
Before(x, y, rows, order) ==
    IF order = <<"n">> /\ rows[x] # rows[y] THEN Less(rows[x], rows[y])
    ELSE IF order = <<"-", "n">> /\ rows[x] # rows[y] THEN Less(rows[y], rows[x])
    ELSE IF order = <<"-", "I", "d">> THEN x >= y
    ELSE x <= y

RECURSIVE Sorted(_, _, _)
Sorted(ids, rows, order) ==
    IF ids = {} THEN <<>>
    ELSE LET first == CHOOSE x \in ids : \A y \in ids : Before(x, y, rows, order)
         IN  <<first>> \o Sorted(ids \ {first}, rows, order)

Min(a, b) == IF a < b THEN a ELSE b

\* qs.All(): the matching rows, ordered, from the offset on, at most limit of them
All(qs, rows) ==
    LET order == IF qs.orderBy # <<>> /\ Len(qs.orderBy[1]) > 0 THEN qs.orderBy[1][1] ELSE <<>>
        ids == Sorted(Matching(qs, rows), rows, order)
        from == IF qs.offset # <<>> THEN qs.offset[1] ELSE 0
        upto == IF qs.limit # <<>> THEN Min(Len(ids), from + qs.limit[1]) ELSE Len(ids)
        page == SubSeq(ids, from + 1, upto)
    IN  [i \in 1..Len(page) |-> Entity(page[i], rows[page[i]])]

-----------------------------------------------------------------------------
(* The repository methods as the controller calls them.  m is the state of  *)
(* one request: the responses written, the repository calls made, the       *)
(* header, whether the handler was aborted, the store and the repository's  *)
(* registry.  fail says that the driver call fails with a store error.      *)

\* x := v; F(x), with v evaluated once
Let(v, F(_)) == CHOOSE r \in { F(x) : x \in {v} } : TRUE

\* a call of a repository method: err is what the method returns, drv what the
\* driver returned to it ("none" when the driver was not reached)
Call(op, id, options, drv, err) ==
    [op |-> op, id |-> id, options |-> options, drv |-> drv, err |-> err]

Called(m, call) == [m EXCEPT !.calls = Append(@, call)]

\* Read that runs Init again, which replaces the registry by an empty one
Read_Init(m, id, fail) ==
    LET err == IF fail THEN "StoreError"
               ELSE IF id \in DOMAIN m.store THEN "nil" ELSE "ErrNotFound"
    IN  [m |-> [Called(m, Call("Read", id, <<>>, err, err)) EXCEPT !.registry = [x \in {} |-> "nil"]],
         err |-> err,
         entity |-> IF err = "nil" THEN Entity(id, m.store[id]) ELSE NewInstance]

\* Read, lines 91-95: One() gives orm.ErrNoRows when no row has the key
Read(m, id, fail) ==
    LET err == IF fail THEN "StoreError"
               ELSE IF id \in DOMAIN m.store THEN "nil" ELSE "ErrNotFound"
    IN  [m |-> Called(m, Call("Read", id, <<>>, err, err)), err |-> err,
         entity |-> IF err = "nil" THEN Entity(id, m.store[id]) ELSE NewInstance]

\* the error of a query: a panic while it was built, or the driver's
QueryErr(qs, fail) ==
    IF qs.panic THEN "panic" ELSE IF fail \/ QueryFails(qs) THEN "StoreError" ELSE "nil"

DriverErr(qs, fail) == IF qs.panic THEN "none" ELSE QueryErr(qs, fail)

\* ReadAll, lines 103-109
RepoReadAll(m, registry, options, fail) ==
    Let(ReadAllQuery(registry, options), LAMBDA qs :
        [m |-> Called(m, Call("ReadAll", 0, options, DriverErr(qs, fail), QueryErr(qs, fail))),
         err |-> QueryErr(qs, fail),
         rows |-> IF QueryErr(qs, fail) = "nil" THEN All(qs, m.store) ELSE <<>>])

\* Count with the sort and pagination of the options applied as in ReadAll
RepoCount_WithOptions(m, registry, options, fail) ==
    Let(ReadAllQuery(registry, options), LAMBDA qs :
        [m |-> Called(m, Call("Count", 0, options, DriverErr(qs, fail), QueryErr(qs, fail))),
         err |-> QueryErr(qs, fail),
         count |-> IF QueryErr(qs, fail) = "nil" THEN Len(All(qs, m.store)) ELSE 0])

\* Count that misses one of the matching rows
RepoCount_MinusOne(m, registry, options, fail) ==
    Let(CountQuery(registry, options), LAMBDA qs :
        [m |-> Called(m, Call("Count", 0, options, DriverErr(qs, fail), QueryErr(qs, fail))),
         err |-> QueryErr(qs, fail),
         count |-> IF QueryErr(qs, fail) = "nil" /\ Matching(qs, m.store) # {}
                       THEN Cardinality(Matching(qs, m.store)) - 1 ELSE 0])

\* Count, lines 97-101
RepoCount(m, registry, options, fail) ==
    Let(CountQuery(registry, options), LAMBDA qs :
        [m |-> Called(m, Call("Count", 0, options, DriverErr(qs, fail), QueryErr(qs, fail))),
         err |-> QueryErr(qs, fail),
         count |-> IF QueryErr(qs, fail) = "nil" THEN Cardinality(Matching(qs, m.store)) ELSE 0])

\* Save, lines 111-113: Insert gives the row the next primary key
Save(m, p, fail) ==
    LET err == IF fail THEN "StoreError" ELSE "nil"
        m1 == IF fail THEN m
              ELSE [m EXCEPT !.store = [x \in DOMAIN m.store \cup {m.nextId} |->
                                            IF x = m.nextId THEN p.Name ELSE m.store[x]],
                             !.nextId = @ + 1]
    IN  [m |-> Called(m1, Call("Save", p.Id, <<>>, err, err)), err |-> err,
         id |-> IF fail THEN 0 ELSE m.nextId]

\* o.Update(p): the rows whose key is p.Id get p's columns; (count, err)
OrmUpdate(m, p, fail) ==
    IF fail THEN [m |-> m, count |-> 0, err |-> "StoreError"]
    ELSE IF p.Id \in DOMAIN m.store
        THEN [m |-> [m EXCEPT !.store[p.Id] = p.Name], count |-> 1, err |-> "nil"]
        ELSE [m |-> m, count |-> 0, err |-> "nil"]

\* Update with the zero-rows test left out
Update_NoCountTest(m, p, fail) ==
    Let(OrmUpdate(m, p, fail), LAMBDA u :
        [m |-> Called(u.m, Call("Update", p.Id, <<>>, u.err, u.err)), err |-> u.err])

\* Update, lines 115-124
Update(m, p, fail) ==
    Let(OrmUpdate(m, p, fail), LAMBDA u :
    Let(IF u.err # "nil" THEN u.err ELSE IF u.count = 0 THEN "ErrNotFound" ELSE u.err, LAMBDA err :
        [m |-> Called(u.m, Call("Update", p.Id, <<>>, u.err, err)), err |-> err]))

\* Delete, lines 126-129: the number of rows affected is dropped
Delete(m, id, fail) ==
    LET err == IF fail THEN "StoreError" ELSE "nil"
        m1 == IF fail THEN m
              ELSE [m EXCEPT !.store = [x \in DOMAIN m.store \ {id} |-> m.store[x]]]
    IN  [m |-> Called(m1, Call("Delete", id, <<>>, err, err)), err |-> err]

-----------------------------------------------------------------------------
(* base_rest_controller.go *)

Response(code, msg, id, rows) == [code |-> code, msg |-> msg, id |-> id, rows |-> rows]

\* SendError that returns to the handler instead of aborting it
SendError_Returns(m, code, msg, id) ==
    [m EXCEPT !.resp = Append(@, Response(code, msg, id, <<>>))]

\* SendError, lines 40-43: c.Abort writes the response and unwinds the handler
SendError(m, code, msg, id) ==
    [m EXCEPT !.resp = Append(@, Response(code, msg, id, <<>>)), !.aborted = TRUE]

\* a Go run-time panic in a handler: the framework recovers it into a 500 page
Panic(m) ==
    [m EXCEPT !.resp = Append(@, Response("500", "panic", 0, <<>>)), !.aborted = TRUE]

\* c.Data["json"] = ...; c.ServeJSON()
ServeJSON(m, msg, id, rows) ==
    [m EXCEPT !.resp = Append(@, Response("200", msg, id, rows))]

\* Prepare with the result of AccessControl ignored
Prepare_NoCheck(m, auth) == m

\* Prepare, lines 50-64: auth is "none" when the controller has no
\* AccessControl, else what AccessControl answers
Prepare(m, auth) ==
    IF auth = "deny" THEN SendError(m, "401", "Access denied!", 0) ELSE m

\* c.Ctx.Input.Bind(&x, name): x keeps its value when the parameter is absent
Bind(param, default) == IF param = <<>> THEN default ELSE param[1]

\* parseFilters with the blob decoded after the query parameters
parseFilters_BlobLast(q) ==
    LET decoded == IF q.blob.kind = "object" THEN q.blob.obj ELSE NoFilters
        implicit == { k \in DOMAIN q.params : ~HasPrefix(k, <<"_">>) }
    IN  [panic |-> q.blob.kind = "null" /\ implicit # {},
         map |-> [k \in DOMAIN decoded \cup implicit |->
                     IF k \in DOMAIN decoded THEN decoded[k] ELSE StringValue(q.params[k])]]

\* parseFilters, lines 162-178.  json.Unmarshal fills the map from a JSON
\* object, sets it to nil for JSON null and leaves it empty on an error;
\* assigning to an entry of the nil map panics
parseFilters(q) ==
    LET decoded == IF q.blob.kind = "object" THEN q.blob.obj ELSE NoFilters
        implicit == { k \in DOMAIN q.params : ~HasPrefix(k, <<"_">>) }
    IN  [panic |-> q.blob.kind = "null" /\ implicit # {},
         map |-> [k \in DOMAIN decoded \cup implicit |->
                     IF k \in implicit THEN StringValue(q.params[k]) ELSE decoded[k]]]

\* parseOptions, lines 180-195
parseOptions(q) ==
    LET perPage == Bind(q.perPage, 0)
        page == Bind(q.page, 1)
        filters == parseFilters(q)
    IN  [panic |-> filters.panic,
         opt |-> Options(q.sortField, ToLower(q.sortDir), (page - 1) * perPage, perPage,
                         filters.map)]

GetId(entity) == entity.Id

\* Get with a path id, lines 74-85
GetOne(m, id, fail) ==
    Let(Read(m, id, fail), LAMBDA rd :
    Let(IF rd.err = "ErrNotFound" THEN SendError(rd.m, "404", "not found", id) ELSE rd.m, LAMBDA m1 :
    Let(IF ~m1.aborted /\ rd.err # "nil" THEN SendError(m1, "500", rd.err, 0) ELSE m1, LAMBDA m2 :
        IF m2.aborted THEN m2 ELSE ServeJSON(m2, "entity", id, <<rd.entity>>))))

\* Get without a path id up to the error test of ReadAll, lines 87-92
GetAllRead(m, registry, q, failAll) ==
    Let(parseOptions(q), LAMBDA po :
        IF po.panic THEN [m |-> Panic(m), opt |-> po.opt, rows |-> <<>>] ELSE
    Let(RepoReadAll(m, registry, <<po.opt>>, failAll), LAMBDA ra :
        [m |-> IF ra.err = "panic" THEN Panic(ra.m)
               ELSE IF ra.err # "nil" THEN SendError(ra.m, "500", ra.err, 0) ELSE ra.m,
         opt |-> po.opt, rows |-> ra.rows]))

\* GetAllCount with the error of Count answered like the error of ReadAll
GetAllCount_Checked(m, registry, opt, rows, failCount) ==
    Let(RepoCount(m, registry, <<opt>>, failCount), LAMBDA rc :
        IF rc.err = "panic" THEN Panic(rc.m)
        ELSE IF rc.err # "nil" THEN SendError(rc.m, "500", rc.err, 0)
        ELSE ServeJSON([rc.m EXCEPT !.header = <<rc.count>>], "collection", 0, rows))

\* the rest of it, lines 93-96: Count, the header, the rows of ReadAll
GetAllCount(m, registry, opt, rows, failCount) ==
    Let(RepoCount(m, registry, <<opt>>, failCount), LAMBDA rc :
        IF rc.err = "panic" THEN Panic(rc.m)
        ELSE ServeJSON([rc.m EXCEPT !.header = <<rc.count>>], "collection", 0, rows))

\* Get without a path id, lines 87-96
GetAll(m, registry, q, failAll, failCount) ==
    Let(GetAllRead(m, registry, q, failAll), LAMBDA g :
        IF g.m.aborted THEN g.m ELSE GetAllCount(g.m, registry, g.opt, g.rows, failCount))

Get(m, registry, r, failA, failB) ==
    IF r.id # 0 THEN GetOne(m, r.id, failA) ELSE GetAll(m, registry, r.query, failA, failB)

\* Put with the identifier of the request path put into the decoded entity
Put_BindsPathId(m, r, fail) ==
    Let(IF ~r.body.ok THEN SendError(m, "422", "decode error", 0) ELSE m, LAMBDA m1 :
        IF m1.aborted THEN m1 ELSE
    Let(Entity(r.id, r.body.entity.Name), LAMBDA entity :
    Let(Update(m1, entity, fail), LAMBDA up :
    Let(IF up.err = "ErrNotFound"
            THEN SendError(up.m, "404", "not found", GetId(entity)) ELSE up.m, LAMBDA m2 :
    Let(IF ~m2.aborted /\ up.err # "nil" THEN SendError(m2, "500", up.err, 0) ELSE m2, LAMBDA m3 :
        IF m3.aborted THEN m3
        ELSE ServeJSON(m3, "entity", entity.Id, <<entity>>))))))

\* Put that calls Update a second time when the first call fails in the store
Put_Retry(m, r, fail) ==
    Let(IF ~r.body.ok THEN SendError(m, "422", "decode error", 0) ELSE m, LAMBDA m1 :
        IF m1.aborted THEN m1 ELSE
    Let(Update(m1, r.body.entity, fail), LAMBDA first :
    Let(IF first.err = "StoreError" THEN Update(first.m, r.body.entity, fail) ELSE first, LAMBDA up :
    Let(IF up.err = "ErrNotFound"
            THEN SendError(up.m, "404", "not found", GetId(r.body.entity)) ELSE up.m, LAMBDA m2 :
    Let(IF ~m2.aborted /\ up.err # "nil" THEN SendError(m2, "500", up.err, 0) ELSE m2, LAMBDA m3 :
        IF m3.aborted THEN m3
        ELSE ServeJSON(m3, "entity", r.body.entity.Id, <<r.body.entity>>))))))

\* Put, lines 101-120
Put(m, r, fail) ==
    Let(IF ~r.body.ok THEN SendError(m, "422", "decode error", 0) ELSE m, LAMBDA m1 :
        IF m1.aborted THEN m1 ELSE
    Let(Update(m1, r.body.entity, fail), LAMBDA up :
    Let(IF up.err = "ErrNotFound"
            THEN SendError(up.m, "404", "not found", GetId(r.body.entity)) ELSE up.m, LAMBDA m2 :
    Let(IF ~m2.aborted /\ up.err # "nil" THEN SendError(m2, "500", up.err, 0) ELSE m2, LAMBDA m3 :
        IF m3.aborted THEN m3
        ELSE ServeJSON(m3, "entity", r.body.entity.Id, <<r.body.entity>>)))))

\* Post with the decode error ignored
Post_NoDecodeCheck(m, r, fail) ==
    Let(Save(m, r.body.entity, fail), LAMBDA sv :
    Let(IF sv.err # "nil" THEN SendError(sv.m, "500", sv.err, 0) ELSE sv.m, LAMBDA m2 :
        IF m2.aborted THEN m2 ELSE ServeJSON(m2, "id", sv.id, <<>>)))

\* Post, lines 122-135
Post(m, r, fail) ==
    Let(IF ~r.body.ok THEN SendError(m, "422", "decode error", 0) ELSE m, LAMBDA m1 :
        IF m1.aborted THEN m1 ELSE
    Let(Save(m1, r.body.entity, fail), LAMBDA sv :
    Let(IF sv.err # "nil" THEN SendError(sv.m, "500", sv.err, 0) ELSE sv.m, LAMBDA m2 :
        IF m2.aborted THEN m2 ELSE ServeJSON(m2, "id", sv.id, <<>>))))

\* Delete, lines 137-152
DeleteHandler(m, r, fail) ==
    Let(Delete(m, r.id, fail), LAMBDA dl :
    Let(IF dl.err = "ErrNotFound" THEN SendError(dl.m, "404", "not found", r.id) ELSE dl.m, LAMBDA m1 :
    Let(IF ~m1.aborted /\ dl.err # "nil" THEN SendError(m1, "500", dl.err, 0) ELSE m1, LAMBDA m2 :
        IF m2.aborted THEN m2 ELSE ServeJSON(m2, "empty object", 0, <<>>))))

\* the framework's dispatch: Prepare, then the method of the verb unless
\* Prepare ended the request
Serve(m, registry, r, failA, failB) ==
    Let(Prepare(m, r.auth), LAMBDA m1 :
        IF m1.aborted THEN m1
        ELSE CASE r.verb = "GET" -> Get(m1, registry, r, failA, failB)
               [] r.verb = "PUT" -> Put(m1, r, failA)
               [] r.verb = "POST" -> Post(m1, r, failA)
               [] OTHER -> DeleteHandler(m1, r, failA))

-----------------------------------------------------------------------------
(* Requests *)

PathIds == 0..(MaxId + 1)

\* the controller has no AccessControl, or AccessControl answers true or false
Auths == { "none", "allow", "deny" }

MalformedBody == [ok |-> FALSE, entity |-> NewInstance]

Bodies ==
    { MalformedBody } \cup { [ok |-> TRUE, entity |-> Entity(i, n)] : i \in PathIds, n \in Names }

Blob(kind, obj) == [kind |-> kind, obj |-> obj]

NoBlob == Blob("absent", NoFilters)

F__p == <<"_", "p">>

\* the JSON objects {}, {"n":"R"}, {"n":"b"}, {"n":7}, {"n":true}
BlobObjects ==
    { NoFilters } \cup
    { [x \in {F_n} |-> v] :
        v \in { StringValue(<<"R">>), StringValue(<<"b">>), Float64Value(70), BoolValue } }

Blobs ==
    { NoBlob, Blob("malformed", NoFilters), Blob("null", NoFilters), Blob("array", NoFilters) }
    \cup { Blob("object", o) : o \in BlobObjects }

NoParams == [x \in {} |-> <<>>]

\* the query parameters other than _page, _perPage, _sortField, _sortDir and
\* _filters, each with its first value: none, n=b, n=R, _p=b, n=b&_p=b
ParamSets ==
    { NoParams, [x \in {F_n} |-> <<"b">>], [x \in {F_n} |-> <<"R">>],
      [x \in {F__p} |-> <<"b">>], [x \in {F_n, F__p} |-> <<"b">>] }

Query(page, perPage, sortField, sortDir, blob, params) ==
    [page |-> page, perPage |-> perPage, sortField |-> sortField, sortDir |-> sortDir,
     blob |-> blob, params |-> params]

NoQuery == Query(<<>>, <<>>, <<>>, <<>>, NoBlob, NoParams)

Pages == { <<>>, <<0>>, <<2>>, <<0 - 1>> }

PerPages == { <<>>, <<0>>, <<1>>, <<0 - 1>> }

SortFields == { <<>>, <<"n">>, <<"-", "I", "d">>, <<"x">> }

SortDirs == { <<>>, S_desc, <<"D", "E", "S", "C">> }

\* every page and page size, every sort, and every blob with every parameter
\* set, each with the other parameters absent
Queries ==
    { Query(pg, pp, <<>>, <<>>, NoBlob, NoParams) : pg \in Pages, pp \in PerPages }
    \cup { Query(<<>>, <<>>, sf, sd, NoBlob, NoParams) : sf \in SortFields, sd \in SortDirs }
    \cup { Query(<<>>, <<>>, <<>>, <<>>, bl, ps) : bl \in Blobs, ps \in ParamSets }

Request(verb, id, auth, body, query) ==
    [verb |-> verb, id |-> id, auth |-> auth, body |-> body, query |-> query]

NoRequest == Request("none", 0, "none", MalformedBody, NoQuery)

GetRequests ==
    { Request("GET", id, a, MalformedBody, NoQuery) : id \in PathIds \ {0}, a \in Auths }
    \cup { Request("GET", 0, a, MalformedBody, q) : a \in Auths, q \in Queries }

PutRequests == { Request("PUT", id, a, b, NoQuery) : id \in PathIds, a \in Auths, b \in Bodies }

PostRequests == { Request("POST", 0, a, b, NoQuery) : a \in Auths, b \in Bodies }

DeleteRequests == { Request("DELETE", id, a, MalformedBody, NoQuery) : id \in PathIds, a \in Auths }

\* the registries the resources are constructed with
Registries == { [x \in {} |-> "nil"], [x \in {F_n} |-> "ContainsWithFilter"] }

-----------------------------------------------------------------------------
(* The repository API called directly *)

Idle == [op |-> "idle", options |-> <<>>, qs |-> QueryTable(Table), err |-> "nil"]

IdleCtx == [pc |-> "idle", resp |-> <<>>, calls |-> <<>>, header |-> <<>>]

RepoInit ==
    /\ filterMap = [x \in {} |-> "nil"]
    /\ rcall = Idle
    /\ store = EmptyStore
    /\ nextId = 1
    /\ req = NoRequest
    /\ ctx = IdleCtx
    /\ inflight = {}

\* AddFilter(field, function), line 65
AddFilter(field, function) ==
    /\ rcall.op = "idle"
    /\ field \in DOMAIN filterMap \/ Cardinality(DOMAIN filterMap) < MaxRegistered
    /\ filterMap' = [x \in DOMAIN filterMap \cup {field} |->
                        IF x = field THEN function ELSE filterMap[x]]
    /\ UNCHANGED <<rcall, cvars>>

\* the error of a driver call: none when the call panicked before reaching it
DriverErrs(qs) == IF qs.panic THEN {"panic"} ELSE {"nil", "StoreError"}

Count(options) ==
    /\ rcall.op = "idle"
    /\ LET qs == CountQuery(filterMap, options)
       IN  \E e \in DriverErrs(qs) :
               rcall' = [op |-> "Count", options |-> options, qs |-> qs, err |-> e]
    /\ UNCHANGED <<filterMap, cvars>>

ReadAll(options) ==
    /\ rcall.op = "idle"
    /\ LET qs == ReadAllQuery(filterMap, options)
       IN  \E e \in DriverErrs(qs) :
               rcall' = [op |-> "ReadAll", options |-> options, qs |-> qs, err |-> e]
    /\ UNCHANGED <<filterMap, cvars>>

Return ==
    /\ rcall.op # "idle"
    /\ rcall' = Idle
    /\ UNCHANGED <<filterMap, cvars>>

RepoNext ==
    \/ \E field \in RegisteredFields, function \in FilterFuncs : AddFilter(field, function)
    \/ \E options \in OptionsArgs : Count(options)
    \/ \E options \in OptionsArgs : ReadAll(options)
    \/ Return

SpecRepo == RepoInit /\ [][RepoNext]_vars

-----------------------------------------------------------------------------
(* The REST resource: requests served one after the other over one store *)

Init ==
    /\ filterMap \in Registries
    /\ rcall = Idle
    /\ store = EmptyStore
    /\ nextId = 1
    /\ req = NoRequest
    /\ ctx = IdleCtx
    /\ inflight = {}

\* the state of a request when the framework hands it to the controller
NewRequestState ==
    [resp |-> <<>>, calls |-> <<>>, header |-> <<>>, aborted |-> FALSE,
     store |-> store, nextId |-> nextId, registry |-> filterMap]

Handle(r, failA, failB) ==
    \E m \in { Serve(NewRequestState, filterMap, r, failA, failB) } :
           /\ req' = r
           /\ ctx' = [pc |-> "done", resp |-> m.resp, calls |-> m.calls, header |-> m.header]
           /\ store' = m.store
           /\ nextId' = m.nextId
           /\ filterMap' = m.registry
    /\ UNCHANGED <<rcall, inflight>>

HttpGet ==
    /\ ctx.pc = "idle"
    /\ \E r \in GetRequests, failA \in BOOLEAN, failB \in BOOLEAN : Handle(r, failA, failB)

HttpPut ==
    /\ ctx.pc = "idle"
    /\ \E r \in PutRequests, fail \in BOOLEAN : Handle(r, fail, FALSE)

\* the store gives out the keys 1..MaxId
HttpPost ==
    /\ ctx.pc = "idle"
    /\ nextId <= MaxId
    /\ \E r \in PostRequests, fail \in BOOLEAN : Handle(r, fail, FALSE)

HttpDelete ==
    /\ ctx.pc = "idle"
    /\ \E r \in DeleteRequests, fail \in BOOLEAN : Handle(r, fail, FALSE)

\* the response is out; the next request gets a new controller
Finish ==
    /\ ctx.pc = "done"
    /\ req' = NoRequest
    /\ ctx' = IdleCtx
    /\ UNCHANGED <<rvars, store, nextId, inflight>>

Next == HttpGet \/ HttpPut \/ HttpPost \/ HttpDelete \/ Finish

Spec == Init /\ [][Next]_vars

-----------------------------------------------------------------------------
(* The REST resource under concurrent requests.  Every handler but the      *)
(* collection GET makes at most one store call, so it is one step; the      *)
(* collection GET makes two, ReadAll and Count, and other requests can be   *)
(* served between them.  req and ctx are the request answered last.         *)

ConcName == <<"b">>

ConcBodies == { [ok |-> TRUE, entity |-> Entity(i, ConcName)] : i \in 0..MaxId }

\* GET /widgets and GET /widgets?n=b
ConcQueries == { NoQuery, Query(<<>>, <<>>, <<>>, <<>>, NoBlob, [x \in {F_n} |-> ConcName]) }

ConcGetAllRequests ==
    { Request("GET", 0, a, MalformedBody, q) : a \in {"none", "deny"}, q \in ConcQueries }

ConcGetOneRequests == { Request("GET", id, "none", MalformedBody, NoQuery) : id \in 1..MaxId }

ConcPutRequests == { Request("PUT", b.entity.Id, "none", b, NoQuery) : b \in ConcBodies }

ConcPostRequests == { Request("POST", 0, "none", b, NoQuery) : b \in { x \in ConcBodies : x.entity.Id = 0 } }

ConcDeleteRequests == { Request("DELETE", id, "none", MalformedBody, NoQuery) : id \in 1..MaxId }

\* the response of request r is written: m is the state its handler ended in
Complete(r, m) ==
    /\ req' = r
    /\ ctx' = [pc |-> "done", resp |-> m.resp, calls |-> m.calls, header |-> m.header]
    /\ store' = m.store
    /\ nextId' = m.nextId
    /\ filterMap' = m.registry
    /\ UNCHANGED rcall

\* a handler with one store call
ConcServe(r) ==
    \E m \in { Serve(NewRequestState, filterMap, r, FALSE, FALSE) } : Complete(r, m)

\* the first part of a collection GET: Prepare, parseOptions, ReadAll
ConcGetAllRead ==
    /\ Cardinality(inflight) < MaxInFlight
    /\ \E r \in ConcGetAllRequests :
        \E g \in { Let(Prepare(NewRequestState, r.auth), LAMBDA m1 :
                        IF m1.aborted THEN [m |-> m1, opt |-> NoFilters, rows |-> <<>>]
                        ELSE GetAllRead(m1, filterMap, r.query, FALSE)) } :
            IF g.m.aborted
                THEN Complete(r, g.m) /\ UNCHANGED inflight
                ELSE /\ inflight' = inflight \cup
                            { [req |-> r, calls |-> g.m.calls, opt |-> g.opt, rows |-> g.rows] }
                     /\ store' = g.m.store
                     /\ nextId' = g.m.nextId
                     /\ filterMap' = g.m.registry
                     /\ UNCHANGED <<rcall, req, ctx>>

\* its second part: Count on the store as it is now, the header, the response
ConcGetAllCount ==
    \E f \in inflight :
        /\ \E m \in { GetAllCount([NewRequestState EXCEPT !.calls = f.calls], filterMap,
                                   f.opt, f.rows, FALSE) } : Complete(f.req, m)
        /\ inflight' = inflight \ {f}

ConcGetOne ==
    /\ \E r \in ConcGetOneRequests : ConcServe(r)
    /\ UNCHANGED inflight

ConcPut ==
    /\ \E r \in ConcPutRequests : ConcServe(r)
    /\ UNCHANGED inflight

ConcPost ==
    /\ nextId <= MaxId
    /\ \E r \in ConcPostRequests : ConcServe(r)
    /\ UNCHANGED inflight

ConcDelete ==
    /\ \E r \in ConcDeleteRequests : ConcServe(r)
    /\ UNCHANGED inflight

ConcNext ==
    ConcGetAllRead \/ ConcGetAllCount \/ ConcGetOne \/ ConcPut \/ ConcPost \/ ConcDelete

SpecConc == Init /\ [][ConcNext]_vars

-----------------------------------------------------------------------------
(* Properties of the repository API (SpecRepo) *)

IsQuery == rcall.op \in {"Count", "ReadAll"} /\ Len(rcall.options) > 0

CallFilters == rcall.options[1].Filters

\* the filter dispatch of the call's options runs to its end
FiltersComplete == ~CountQuery(filterMap, rcall.options).panic

\* the value of a filter entry as the string the rules receive
ValueString(v) == IF v.kind = "float64" THEN FormatFloat(v.f) ELSE v.s

Rewritten(f) == Replace(f, ".", <<"_", "_">>)

EmptyQuery == QueryTable(Table)

\* the constraints each of the three rules puts on the query for (f, v)
OverrideRule(f, v) == CallFilterFunc(filterMap[f], EmptyQuery, Rewritten(f), ValueString(v)).filters
IdRule(f, v) == IdFilter(EmptyQuery, Rewritten(f), ValueString(v)).filters
PrefixRule(f, v) == StartsWithFilter(EmptyQuery, Rewritten(f), ValueString(v)).filters

HasIdSuffix(f) == HasSuffix(Rewritten(f), S_Id) \/ HasSuffix(Rewritten(f), S__id)

\* the rule the priority order selects for f
SelectedRule(f, v) ==
    IF f \in DOMAIN filterMap THEN OverrideRule(f, v)
    ELSE IF HasIdSuffix(f) THEN IdRule(f, v)
    ELSE PrefixRule(f, v)

\* the filter values are strings or numbers and the registered functions are functions
DispatchDefined ==
    \A f \in DOMAIN CallFilters :
        /\ CallFilters[f].kind \in {"string", "float64"}
        /\ f \in DOMAIN filterMap => filterMap[f] # "nil"

\* C1: in Count and ReadAll every entry (f, v) of options.Filters gets exactly
\* the constraint of one rule: the registered function of f if there is one
\* (called with the rewritten name and the value as a string), else the
\* numeric-id equality if the rewritten name ends with Id or __id, else the
\* case-insensitive prefix match; and nothing else is put on the query.
C1_FilterDispatch ==
    IsQuery /\ DispatchDefined /\ (rcall.op = "ReadAll" => ~AddOptions(EmptyQuery, rcall.options).panic)
    => /\ ~rcall.qs.panic
       /\ rcall.qs.filters = UNION { SelectedRule(f, CallFilters[f]) : f \in DOMAIN CallFilters }
       /\ \A f \in DOMAIN CallFilters :
            /\ f \in DOMAIN filterMap => OverrideRule(f, CallFilters[f]) \subseteq rcall.qs.filters
            /\ f \notin DOMAIN filterMap /\ HasIdSuffix(f)
                => \E c \in rcall.qs.filters : c.kind = "int"
            /\ f \notin DOMAIN filterMap /\ ~HasIdSuffix(f)
                => \E c \in rcall.qs.filters :
                      c.kind = "string" /\ HasPrefix(c.field, Rewritten(f)) /\ c.s = ValueString(CallFilters[f])

\* an override registered for "u.id", whose rewritten name has an id suffix,
\* next to the unregistered "uId": the override gets "u__id", uId the id rule
C1_Witness ==
    /\ rcall.op = "Count" /\ Len(rcall.options) > 0 /\ ~rcall.qs.panic
    /\ F_u_id \in DOMAIN filterMap /\ filterMap[F_u_id] = "BooleanFilter"
    /\ DOMAIN CallFilters = {F_uId, F_u_id}
    /\ \E c \in rcall.qs.filters : c.kind = "bool" /\ c.field = <<"u", "_", "_", "i", "d">>
    /\ \E c \in rcall.qs.filters : c.kind = "int"

\* the elements of a sort specification, as written
SortElements(sort) == Split(sort, ",")

SignedName(e) == TrimSpace(e)
OwnDescending(e) == HasPrefix(SignedName(e), <<"-">>)
FieldName(e) == IF OwnDescending(e) THEN Tail(SignedName(e)) ELSE SignedName(e)

\* a comma-separated list of fields, each optionally prefixed with "-"
WellFormedSort(sort) ==
    \A i \in 1..Len(SortElements(sort)) :
        LET name == FieldName(SortElements(sort)[i])
        IN  name # <<>> /\ name[1] \notin {"-", " "}

GlobalDescending == ToLower(rcall.options[1].Order) = S_desc

\* C2: for a non-empty list of fields and either value of the global
\* descending flag, ReadAll hands the driver one order field per element, in
\* the same sequence, descending exactly when the field's own sign differs
\* from the flag (own sign XOR flag).
C2_SortDirectionXor ==
    rcall.op = "ReadAll" /\ Len(rcall.options) > 0 /\ FiltersComplete
        /\ rcall.options[1].Sort # <<>> /\ WellFormedSort(rcall.options[1].Sort)
    => LET elems == SortElements(rcall.options[1].Sort)
       IN  /\ ~rcall.qs.panic
           /\ Len(rcall.qs.orderBy) = 1
           /\ Len(rcall.qs.orderBy[1]) = Len(elems)
           /\ \A i \in 1..Len(elems) :
                LET desc == (OwnDescending(elems[i]) # GlobalDescending)
                IN  rcall.qs.orderBy[1][i] =
                        (IF desc THEN <<"-">> ELSE <<>>) \o Rewritten(FieldName(elems[i]))

\* sort "a, -b.c " with the global flag set: the driver gets "-a", "b__c"
C2_Witness ==
    /\ rcall.op = "ReadAll" /\ Len(rcall.options) > 0
    /\ rcall.options[1].Sort = <<"a", ",", " ", "-", "b", ".", "c", " ">>
    /\ GlobalDescending
    /\ rcall.qs.orderBy = << << <<"-", "a">>, <<"b", "_", "_", "c">> >> >>

\* C4: with an empty sort specification ReadAll completes for every direction
\* flag, hands the driver no order-by, and still applies limit, offset and
\* filters.
C4_EmptySortIgnored ==
    rcall.op = "ReadAll" /\ Len(rcall.options) > 0 /\ FiltersComplete
        /\ rcall.options[1].Sort = <<>>
    => /\ ~rcall.qs.panic
       /\ rcall.qs.orderBy = <<>>
       /\ rcall.qs.limit = (IF rcall.options[1].Max > 0 THEN <<rcall.options[1].Max>> ELSE <<>>)
       /\ rcall.qs.offset = (IF rcall.options[1].Offset > 0 THEN <<rcall.options[1].Offset>> ELSE <<>>)
       /\ rcall.qs.filters = CountQuery(filterMap, rcall.options).filters

\* the registry without the fields registered with the nil function
NonNil(registry) ==
    [f \in { x \in DOMAIN registry : registry[x] # "nil" } |-> registry[f]]

\* C5: a field registered with the nil function behaves in Count and ReadAll
\* as a field that was never registered: the query is the one the registry
\* without that field gives, and the call does not fail.
C5_NilRegistrationIsAbsent ==
    IsQuery =>
        rcall.qs = (IF rcall.op = "Count"
                        THEN CountQuery(NonNil(filterMap), rcall.options)
                        ELSE ReadAllQuery(NonNil(filterMap), rcall.options))

-----------------------------------------------------------------------------
(* Properties of the REST resource (Spec) *)

Served == ctx.pc = "done"

\* the step that serves a request
Serving == ctx.pc = "idle" /\ ctx'.pc = "done"

Authorized == req.auth # "deny"

LastCall == ctx.calls[Len(ctx.calls)]

NotFound(id) == Response("404", "not found", id, <<>>)

\* C3: Delete on a primary key that matches no row fails with NotFound and
\* the DELETE handler answers 404 "<entity> <id> not found", not 200 {}.
C3_DeleteMissingIsNotFound ==
    [][ Serving /\ req'.verb = "DELETE" /\ req'.auth # "deny"
            /\ req'.id \notin DOMAIN store /\ ctx'.calls[1].drv = "nil"
        => ctx'.calls[1].err = "ErrNotFound" /\ ctx'.resp = <<NotFound(req'.id)>> ]_vars

\* the requests for one entity: GET with a path id, PUT and DELETE
SingleEntityRequest ==
    \/ req.verb = "GET" /\ req.id # 0
    \/ req.verb \in {"PUT", "DELETE"}

\* the id the not-found message names
MessageId == IF req.verb = "PUT" THEN req.body.entity.Id ELSE req.id

\* C6: in a single-entity GET, a PUT and a DELETE, NotFound from the
\* repository gives exactly one response, the 404 "<entity> <id> not found",
\* any other error exactly one response, the 500 with the error text, and the
\* payload is serialized only when the repository returned no error.
C6_OutcomeMapping ==
    Served /\ SingleEntityRequest /\ ctx.calls # <<>>
    => /\ Len(ctx.calls) = 1
       /\ Len(ctx.resp) = 1
       /\ LastCall.err = "ErrNotFound" => ctx.resp = <<NotFound(MessageId)>>
       /\ LastCall.err = "StoreError" => ctx.resp = <<Response("500", "StoreError", 0, <<>>)>>
       /\ ctx.resp[1].code = "200" <=> LastCall.err = "nil"

\* a PUT for a row that does not exist, next to rows that do, answered 404
C6_Witness ==
    /\ Served /\ req.verb = "PUT" /\ store # EmptyStore
    /\ ctx.calls # <<>>
    /\ LastCall.err = "ErrNotFound"
    /\ ctx.resp = <<NotFound(req.body.entity.Id)>>

\* C7: when AccessControl answers false the request ends with the 401 and no
\* repository method is called; when the controller has no AccessControl the
\* handler of the verb runs: it answers, and not with a 401.
C7_Authorization ==
    Served
    => /\ req.auth = "deny" =>
            ctx.resp = <<Response("401", "Access denied!", 0, <<>>)>> /\ ctx.calls = <<>>
       /\ req.auth = "none" =>
            /\ ctx.resp # <<>>
            /\ \A i \in 1..Len(ctx.resp) : ctx.resp[i].code # "401"
            /\ ctx.calls = <<>> => ctx.resp[1].code \in {"422", "500"}

\* a denied DELETE of a row that exists: the row is still there
C7_Witness ==
    /\ Served /\ req.verb = "DELETE" /\ req.auth = "deny"
    /\ req.id \in DOMAIN store
    /\ ctx.resp[1].code = "401" /\ ctx.calls = <<>>

\* the filter mapping of a collection GET that reached the repository
IsCollectionRead == Served /\ req.verb = "GET" /\ req.id = 0 /\ ctx.calls # <<>>

MergedFilters == ctx.calls[1].options[1].Filters

BlobKeys == IF req.query.blob.kind = "object" THEN DOMAIN req.query.blob.obj ELSE {}

ImplicitKeys == { k \in DOMAIN req.query.params : ~HasPrefix(k, <<"_">>) }

\* C8 as claimed: a field present in the _filters blob and as a query
\* parameter keeps the value of the blob.
C8_BlobValueKept ==
    IsCollectionRead =>
        \A k \in BlobKeys \cap ImplicitKeys : MergedFilters[k] = req.query.blob.obj[k]

\* C8 as amended: the merged mapping has the keys of both sources; a field
\* present in the _filters blob and as a query parameter gets the first value
\* of the query parameter (source b overwrites source a), and a field of only
\* one source keeps that source's value.
C8_ParamValueKept ==
    IsCollectionRead =>
        /\ DOMAIN MergedFilters = BlobKeys \cup ImplicitKeys
        /\ \A k \in ImplicitKeys : MergedFilters[k] = StringValue(req.query.params[k])
        /\ \A k \in BlobKeys \ ImplicitKeys : MergedFilters[k] = req.query.blob.obj[k]

\* _filters={"n":"R"} with n=b: the repository gets n -> "b"
C8_Witness ==
    /\ IsCollectionRead
    /\ F_n \in BlobKeys \cap ImplicitKeys
    /\ req.query.blob.obj[F_n] = StringValue(<<"R">>)
    /\ MergedFilters[F_n] = StringValue(<<"b">>)

\* C9: a malformed PUT or POST body ends the request with the 422 carrying
\* the decode error, no repository method is called and the store is as it
\* was.
C9_MalformedBody ==
    [][ Serving /\ req'.verb \in {"PUT", "POST"} /\ req'.auth # "deny" /\ ~req'.body.ok
        => /\ ctx'.resp = <<Response("422", "decode error", 0, <<>>)>>
           /\ ctx'.calls = <<>>
           /\ store' = store /\ nextId' = nextId ]_vars

\* a malformed POST answered 422
C9_Witness ==
    /\ Served /\ req.verb = "POST" /\ ~req.body.ok /\ Authorized
    /\ ctx.resp[1].code = "422"

\* C10: Update on a primary key that matches no row returns NotFound and
\* leaves the store as it was; it returns no error only when a row was
\* affected, which then holds the entity; a driver error is returned as is.
C10_UpdateNotFound ==
    [][ Serving /\ req'.verb = "PUT" /\ ctx'.calls # <<>>
        => LET c == ctx'.calls[1]
           IN  /\ c.op = "Update" /\ c.id = req'.body.entity.Id
               /\ c.drv = "nil" /\ c.id \notin DOMAIN store
                    => c.err = "ErrNotFound" /\ store' = store
               /\ c.err = "nil"
                    => /\ c.id \in DOMAIN store
                       /\ store' = [store EXCEPT ![c.id] = req'.body.entity.Name]
               /\ c.drv # "nil" => c.err = c.drv /\ store' = store ]_vars

\* an Update for a key that is not in a non-empty store returned NotFound
C10_Witness ==
    /\ Served /\ req.verb = "PUT" /\ store # EmptyStore
    /\ ctx.calls # <<>> /\ LastCall.op = "Update"
    /\ LastCall.id \notin DOMAIN store /\ LastCall.drv = "nil" /\ LastCall.err = "ErrNotFound"

\* a collection GET whose ReadAll and Count both returned without error
CollectionCounted ==
    /\ Served /\ req.verb = "GET" /\ req.id = 0
    /\ Len(ctx.calls) = 2 /\ ctx.calls[2].op = "Count" /\ ctx.calls[2].err = "nil"

\* the filters with no sort, no order, no offset and no limit
FiltersOnly(options) == Options(<<>>, <<>>, 0, 0, options.Filters)

\* C11: over one store state Count returns the same value whatever the sort,
\* the direction, the offset and the limit of the options are; the value is
\* the number of rows ReadAll returns for the same filters without limit and
\* offset, and so at least the number of rows ReadAll returned.
C11_CountDependsOnFiltersOnly ==
    CollectionCounted =>
        LET opt == ctx.calls[2].options[1]
            unpaged == RepoReadAll(NewRequestState, filterMap, <<FiltersOnly(opt)>>, FALSE)
        IN  /\ ctx.header = <<RepoCount(NewRequestState, filterMap, <<opt>>, FALSE).count>>
            /\ \A s \in SortFields, o \in Orders, off \in Offsets, mx \in Maxes :
                    RepoCount(NewRequestState, filterMap, <<Options(s, o, off, mx, opt.Filters)>>,
                              FALSE).count = ctx.header[1]
            /\ unpaged.err = "nil" /\ Len(unpaged.rows) = ctx.header[1]
            /\ Len(ctx.resp[1].rows) <= ctx.header[1]

\* two rows, a page size of one: one row in the body, a count of two
C11_Witness ==
    /\ CollectionCounted
    /\ ctx.calls[2].options[1].Max = 1
    /\ Len(ctx.resp[1].rows) = 1
    /\ ctx.header = <<2>>

\* a collection GET that called ReadAll
CollectionRead ==
    /\ Served /\ req.verb = "GET" /\ req.id = 0
    /\ ctx.calls # <<>> /\ ctx.calls[1].op = "ReadAll"

\* the query the ReadAll of the request handed to the driver
DriverQuery == ReadAllQuery(filterMap, ctx.calls[1].options)

\* C12: the options of a collection GET have Offset = (page - 1) * perPage
\* and Max = perPage, page being 1 and perPage 0 when absent; ReadAll gives
\* the driver the limit only when Max > 0 and the offset only when
\* Offset > 0, so a limit or offset the driver gets is positive, for every
\* page and perPage, zero and negative ones included.
C12_PaginationTranslation ==
    CollectionRead =>
        LET opt == ctx.calls[1].options[1]
            page == Bind(req.query.page, 1)
            perPage == Bind(req.query.perPage, 0)
        IN  /\ opt.Offset = (page - 1) * perPage
            /\ opt.Max = perPage
            /\ ~DriverQuery.panic =>
                    /\ DriverQuery.limit = (IF perPage > 0 THEN <<perPage>> ELSE <<>>)
                    /\ DriverQuery.offset =
                            (IF (page - 1) * perPage > 0 THEN <<(page - 1) * perPage>> ELSE <<>>)
            /\ DriverQuery.limit # <<>> => DriverQuery.limit[1] > 0
            /\ DriverQuery.offset # <<>> => DriverQuery.offset[1] > 0

\* _page=0 with _perPage=-1: Offset is 1 and Max is -1, the driver gets the
\* offset 1 and no limit
C12_Witness ==
    /\ CollectionRead
    /\ req.query.page = <<0>> /\ req.query.perPage = <<0 - 1>>
    /\ ctx.calls[1].options[1].Max < 0
    /\ DriverQuery.offset = <<1>> /\ DriverQuery.limit = <<>>

\* the _filters parameter is present and is not a JSON object
BlobIsNoObject == req.query.blob.kind \in {"malformed", "null", "array"}

\* C13: when the _filters parameter is not a JSON object (malformed text,
\* null, an array) the collection GET goes on to the repository, and the
\* filter mapping it hands over is exactly the implicit filters: one entry per
\* query parameter whose name does not start with "_", with its first value.
C13_LenientBlobParsing ==
    Served /\ req.verb = "GET" /\ req.id = 0 /\ Authorized /\ BlobIsNoObject
    => /\ ctx.calls # <<>> /\ ctx.calls[1].op = "ReadAll"
       /\ MergedFilters = [k \in ImplicitKeys |-> StringValue(req.query.params[k])]

\* C14: in a collection GET an error of ReadAll ends the request with one
\* 500 response, Count is not called and no collection is written; when
\* ReadAll returns no error Count is called once and, whether Count fails or
\* not, the request ends with the 200 response carrying the rows ReadAll
\* returned.
C14_CountErrorSwallowed ==
    CollectionRead =>
        /\ ctx.calls[1].err # "nil" =>
                /\ Len(ctx.calls) = 1
                /\ Len(ctx.resp) = 1 /\ ctx.resp[1].code = "500" /\ ctx.resp[1].rows = <<>>
                /\ ctx.calls[1].err = "StoreError"
                        => ctx.resp = <<Response("500", "StoreError", 0, <<>>)>>
        /\ ctx.calls[1].err = "nil" =>
                /\ Len(ctx.calls) = 2 /\ ctx.calls[2].op = "Count"
                /\ ctx.resp = <<Response("200", "collection", 0,
                                  RepoReadAll(NewRequestState, filterMap,
                                              ctx.calls[1].options, FALSE).rows)>>
                /\ ctx.header # <<>>

\* Count failed after ReadAll returned a row: 200 with the row
C14_Witness ==
    /\ CollectionRead /\ Len(ctx.calls) = 2
    /\ ctx.calls[2].op = "Count" /\ ctx.calls[2].err = "StoreError"
    /\ ctx.resp[1].code = "200" /\ Len(ctx.resp[1].rows) > 0
    /\ ctx.header = <<0>>

-----------------------------------------------------------------------------
(* Properties of the REST resource under concurrent requests (SpecConc) *)

\* C15: no step of a handler, whatever other requests are in flight and
\* whatever repository methods it calls (Read, ReadAll, Count, Save, Update,
\* Delete), changes the filter registry.
C15_RegistryFrame == [][filterMap' = filterMap]_vars

\* a DELETE answered while collection GETs are between their two calls, over
\* a registry that holds an override
C15_Witness ==
    /\ Served /\ req.verb = "DELETE" /\ ctx.calls # <<>> /\ LastCall.op = "Delete"
    /\ Cardinality(inflight) = MaxInFlight
    /\ F_n \in DOMAIN filterMap /\ filterMap[F_n] = "ContainsWithFilter"

\* the answer to a collection GET without _perPage whose two calls returned
\* without error
UnpagedCollection == CollectionCounted /\ req.query.perPage = <<>>

Body == ctx.resp[1].rows

StillStored == { i \in 1..Len(Body) : Body[i].Id \in DOMAIN store }

ErrorCodes == { "401", "404", "422", "500" }

\* C16: a request ends with exactly one response; no repository method is
\* called twice in it; and when the response is an error (401, 404, 422 or
\* 500) nothing follows the failure: either no repository method was called,
\* or the call that failed is the last one and every call before it returned
\* no error.  A 401 or 422 is written before any repository call.
C16_NoRetryTerminalFailure ==
    Served =>
        /\ Len(ctx.resp) = 1
        /\ \A i, j \in 1..Len(ctx.calls) : ctx.calls[i].op = ctx.calls[j].op => i = j
        /\ ctx.resp[1].code \in ErrorCodes =>
                \/ ctx.calls = <<>>
                \/ /\ LastCall.err # "nil"
                   /\ \A i \in 1..(Len(ctx.calls) - 1) : ctx.calls[i].err = "nil"
        /\ ctx.resp[1].code \in { "401", "422" } => ctx.calls = <<>>
        /\ ctx.resp[1].code \notin ErrorCodes => ctx.resp[1].code = "200"

\* an Update that failed in the store: one call, one response, the 500
C16_Witness ==
    /\ Served /\ req.verb = "PUT" /\ store # EmptyStore
    /\ Len(ctx.calls) = 1 /\ ctx.calls[1].op = "Update" /\ ctx.calls[1].err = "StoreError"
    /\ ctx.resp = <<Response("500", "StoreError", 0, <<>>)>>

\* C18: every value of the filter mapping a collection GET hands to the
\* repository is a string or a number, so the filter dispatch of ReadAll and
\* Count does not panic on any entry, and the request ends with a 200 or a
\* 500 response.
C18_FilterValuesAreScalars ==
    IsCollectionRead =>
        /\ \A k \in DOMAIN MergedFilters : MergedFilters[k].kind \in {"string", "float64"}
        /\ \A i \in 1..Len(ctx.calls) : ctx.calls[i].err # "panic"
        /\ ctx.resp[1].code \in {"200", "500"}

\* C20: a PUT with a decoded body changes no row but the one whose key is
\* the Id of the body; Update is called with that Id and the not-found
\* message names it; the identifier of the request path changes nothing of
\* the outcome (the same request with any other path identifier gives the
\* same responses and the same store); on success the row holds the body and
\* the response echoes it.
C20_PutUsesBodyId ==
    [][ Serving /\ req'.verb = "PUT" /\ req'.auth # "deny" /\ req'.body.ok
        => LET entity == req'.body.entity
               fail == ctx'.calls[1].drv = "StoreError"
           IN  /\ DOMAIN store' = DOMAIN store
               /\ \A k \in DOMAIN store : k # entity.Id => store'[k] = store[k]
               /\ Len(ctx'.calls) = 1 /\ ctx'.calls[1].op = "Update" /\ ctx'.calls[1].id = entity.Id
               /\ ctx'.resp[1].code = "404" => ctx'.resp = <<NotFound(entity.Id)>>
               /\ ctx'.resp[1].code = "200" =>
                    /\ ctx'.resp[1].rows = <<entity>>
                    /\ store'[entity.Id] = entity.Name
               /\ \A id \in PathIds :
                    LET other == Serve(NewRequestState, filterMap, [req' EXCEPT !.id = id], fail, FALSE)
                    IN  other.resp = ctx'.resp /\ other.store = store' ]_vars

\* PUT /widgets/1 with the body of widget 2, both stored: row 2 holds the
\* body, row 1 is as it was
C20_Witness ==
    /\ Served /\ req.verb = "PUT" /\ req.id = 1 /\ req.body.entity.Id = 2
    /\ DOMAIN store = {1, 2}
    /\ ctx.resp[1].code = "200" /\ ctx.resp[1].rows = <<req.body.entity>>
    /\ store[2] = req.body.entity.Name /\ store[1] # req.body.entity.Name

-----------------------------------------------------------------------------
(* More properties of the repository API (SpecRepo) *)

\* the field name with its id suffix, Id or __id, stripped
Stem(f) ==
    IF HasSuffix(Rewritten(f), S__id) THEN TrimSuffix(Rewritten(f), S__id)
    ELSE TrimSuffix(Rewritten(f), S_Id)

\* the equality on <stem>__id with the integer the value denotes, 0 when it
\* denotes none
IdEquality(f, v) ==
    LET parsed == Atoi(ValueString(v))
    IN  Cond(Stem(f) \o S__id, "int", IF parsed.err THEN 0 ELSE parsed.n, <<>>, FALSE)

\* the entries of the call's filters that fall to the id rule
IdEntries == { f \in DOMAIN CallFilters : f \notin DOMAIN filterMap /\ HasIdSuffix(f) }

\* C17: for a filter without override whose rewritten name is a stem followed
\* by Id or __id, the driver gets the equality on <stem>__id with the integer
\* the value denotes (0 when it denotes none), and no other numeric equality;
\* the call does not fail.
C17_IdSuffixFilter ==
    IsQuery /\ DispatchDefined /\ (rcall.op = "ReadAll" => ~AddOptions(EmptyQuery, rcall.options).panic)
    => /\ ~rcall.qs.panic
       /\ { c \in rcall.qs.filters : c.kind = "int" }
            = { IdEquality(f, CallFilters[f]) : f \in IdEntries }

====
